---- MODULE Spec2Model ----
(***************************************************************************)
(* examples/minroot.rs: the MinRoot advice generator                       *)
(* (MinRootIteration::new), the per-step circuit encoder                   *)
(* (MinRootCircuit::synthesize) and the driver (main) that slices the      *)
(* trace and proves one step per slice.                                    *)
(*                                                                         *)
(* The scalar field is Z/p for a small odd prime p; the driver's           *)
(* parameters (num_steps, num_iters_per_step, the seeds) and the build     *)
(* profile (cfg!(debug_assertions)) are chosen in Init.                    *)
(***************************************************************************)
EXTENDS Integers, Sequences, FiniteSets, TLC

\* ------------------------------------------------------------------ bounds
MaxP == 17
MaxSteps == 2
MaxIters == 2
MaxForge == 2

\* ------------------------------------------------------------ field (ff)
IsPrime(q) == q > 1 /\ \A d \in 2..(q - 1) : q % d # 0

Primes == {q \in 3..MaxP : IsPrime(q)}

RECURSIVE Gcd(_, _)
Gcd(a, b) == IF b = 0 THEN a ELSE Gcd(b, a % b)

\* BigUint::modpow / Field::pow_vartime: square-and-multiply, b^0 = 1
RECURSIVE ModPow(_, _, _)
ModPow(b, e, m) ==
  IF e = 0 THEN 1 % m
  ELSE LET h == ModPow(b, e \div 2, m)
           s == (h * h) % m
       IN  IF e % 2 = 1 THEN (s * b) % m ELSE s

VARIABLES
  p,                    \* order of the scalar field, G::group_params().2
  debug,                \* cfg!(debug_assertions)
  num_steps,            \* main: num_steps
  num_iters_per_step,   \* main: num_iters_per_step
  x_0, y_0,             \* the seeds handed to MinRootIteration::new
  pc,                   \* position of main
  gi, x_i, y_i, res,    \* MinRootIteration::new: _i, x_i, y_i, res
  z0_primary,           \* main: z0_primary
  minroot_iterations,   \* main: minroot_iterations
  minroot_circuits,     \* main: minroot_circuits (one seq per step)
  step,                 \* main: index of the next prove_step
  z,                    \* public state threaded between steps (values)
  cs,                   \* constraint system of the last synthesize
  z_out,                \* result of the last synthesize
  allsat,               \* every step so far had all constraints satisfied
  tampered,             \* <<slice, record, field>> replaced before proving, or <<>>
  forged                \* number of witness values replaced after synthesis

vars == <<p, debug, num_steps, num_iters_per_step, x_0, y_0, pc, gi, x_i, y_i,
          res, z0_primary, minroot_iterations, minroot_circuits, step, z, cs,
          z_out, allsat, tampered, forged>>

config == <<p, debug, num_steps, num_iters_per_step, x_0, y_0>>
genvars == <<gi, x_i, y_i, res>>
advvars == <<tampered, forged>>

F == 0..(p - 1)

\* <G::Scalar as PrimeField>::from_u128
from_u128(n) == n % p

FAdd(a, b) == (a + b) % p
FMul(a, b) == (a * b) % p

\* the exponent computed at the top of MinRootIteration::new
five_inv == ModPow(5 % p, p - 2, p)
exp == (five_inv * (p - 3)) % p

\* (x_i + y_i).pow_vartime(&exp.to_u64_digits())
FifthRoot(s) == ModPow(s, exp, p)

\* sq * sq * x, as the sanity check and the circuit compute it
Fifth(x) ==
  LET sq == FMul(x, x)
      quad == FMul(sq, sq)
  IN  FMul(quad, x)

\* mutant of NextY: the index is taken 0-based
NextY_ZeroBased(x, i) == FAdd(x, from_u128(i))

\* let i_ = from_u128((_i + 1)); let y_i_plus_1 = x_i + i_
NextY(x, i) == FAdd(x, from_u128(i + 1))

MinRootIteration(xi, yi, xo, yo) ==
  [x_i |-> xi, y_i |-> yi, x_i_plus_1 |-> xo, y_i_plus_1 |-> yo]

\* -------------------------------------------------- constraint system
\* Variable 1 is CS::one(); 2 and 3 are the step's inputs z[0], z[1]; the
\* variables synthesize allocates follow in allocation order.  A linear
\* combination is the sequence of its variables (all coefficients are 1).
ONE == 1

NewCS(zin) == [vals |-> <<1 % p, zin[1], zin[2]>>, cons |-> <<>>]

\* AllocatedNum::alloc: the new variable is the next index
Alloc(c, v) == [c EXCEPT !.vals = Append(@, v)]
LastVar(c) == Len(c.vals)

\* cs.enforce(a, b, c): a * b = c
Enforce(c, a, b, cc) == [c EXCEPT !.cons = Append(@, [a |-> a, b |-> b, c |-> cc])]

\* AllocatedNum::square: allocate v*v and enforce v * v = new
Square(c, v) ==
  LET c1 == Alloc(c, FMul(c.vals[v], c.vals[v]))
  IN  Enforce(c1, <<v>>, <<v>>, <<LastVar(c1)>>)

RECURSIVE EvalLC(_, _)
EvalLC(vals, lc) ==
  IF lc = <<>> THEN 0 ELSE (vals[Head(lc)] + EvalLC(vals, Tail(lc))) % p

ConstraintHolds(vals, k) ==
  FMul(EvalLC(vals, k.a), EvalLC(vals, k.b)) = EvalLC(vals, k.c)

Satisfied(c) == \A n \in 1..Len(c.cons) : ConstraintHolds(c.vals, c.cons[n])

Ok(v) == [ok |-> TRUE, vars |-> v, err |-> "none"]
Err(e) == [ok |-> FALSE, vars |-> <<>>, err |-> e]

\* ------------------------------------------- MinRootCircuit::synthesize
\* mutant of ZOutInit: z_out starts as the input vector
ZOutInit_Identity(zvars) == Ok(zvars)

\* let mut z_out = Err(SynthesisError::AssignmentMissing)
ZOutInit(zvars) == Err("AssignmentMissing")

\* mutant of ZOut: the second component is the last y_out
ZOut_LastY(x_i_plus_1, x_i_run, y_i_plus_1) == Ok(<<x_i_plus_1, y_i_plus_1>>)

\* z_out = Ok(vec![x_i_plus_1.clone(), x_i.clone()])
ZOut(x_i_plus_1, x_i_run, y_i_plus_1) == Ok(<<x_i_plus_1, x_i_run>>)

\* the value the closure of the index allocation yields: from_u128(i + 1),
\* i being the position in self.seq
IndexValue(i) == from_u128(i + 1)

\* One pass of the for loop for every i in 0..self.seq.len(); xv and yv are
\* the running variables x_i and y_i, zo the current z_out.
RECURSIVE SynthLoop(_, _, _, _, _, _)
SynthLoop(seq, i, c, xv, yv, zo) ==
  IF i >= Len(seq) THEN [cs |-> c, z_out |-> zo]
  ELSE LET c1 == Alloc(c, IndexValue(i))
           i_ == LastVar(c1)
           c2 == Alloc(c1, seq[i + 1].x_i_plus_1)
           x1 == LastVar(c2)
           c3 == Alloc(c2, seq[i + 1].y_i_plus_1)
           y1 == LastVar(c3)
           c4 == Square(c3, x1)
           sq == LastVar(c4)
           c5 == Square(c4, sq)
           quad == LastVar(c5)
           c6 == Enforce(c5, <<quad>>, <<x1>>, <<xv, yv>>)
           c7 == Enforce(c6, <<ONE>>, <<y1>>, <<xv, i_>>)
           zo2 == IF i = Len(seq) - 1 THEN ZOut(x1, xv, y1) ELSE zo
       IN  SynthLoop(seq, i + 1, c7, x1, y1, zo2)

\* synthesize(&self, cs, z): z[0] and z[1] are variables 2 and 3 of cs
Synthesize(seq, c) == SynthLoop(seq, 0, c, 2, 3, ZOutInit(<<2, 3>>))

arity == 2

\* ------------------------------------------------------------- the driver
NoCS == [vals |-> <<>>, cons |-> <<>>]
NoResult == Err("unset")

TotalIters == num_iters_per_step * num_steps

Init ==
  /\ p \in Primes
  /\ debug \in BOOLEAN
  /\ num_steps \in 1..MaxSteps
  /\ num_iters_per_step \in 0..MaxIters
  /\ x_0 \in 0..(MaxP - 1) /\ x_0 < p
  /\ y_0 \in 0..(MaxP - 1) /\ y_0 < p
  /\ pc = "new"
  /\ gi = 0 /\ x_i = x_0 /\ y_i = y_0 /\ res = <<>>
  /\ z0_primary = <<>> /\ minroot_iterations = <<>>
  /\ minroot_circuits = <<>>
  /\ step = 0 /\ z = <<>> /\ cs = NoCS /\ z_out = NoResult
  /\ allsat = TRUE /\ tampered = <<>> /\ forged = 0

\* the seeds main passes: Scalar::zero(), Scalar::one()
InitMain == Init /\ x_0 = 0 /\ y_0 = 1

\* mutant of Advance: y_i is not updated to y_i_plus_1
Advance_StaleY(x_i_plus_1, y_i_plus_1) == <<x_i_plus_1, y_i>>

\* x_i = x_i_plus_1; y_i = y_i_plus_1
Advance(x_i_plus_1, y_i_plus_1) == <<x_i_plus_1, y_i_plus_1>>

\* let z0 = vec![*x_0, *y_0]
Z0(a, b) == <<a, b>>

\* MinRootIteration::new, one pass of `for _i in 0..num_iters`
GenIter ==
  /\ pc = "new" /\ gi < TotalIters
  /\ LET s == FAdd(x_i, y_i)
         x_i_plus_1 == FifthRoot(s)
         y_i_plus_1 == NextY(x_i, gi)
         nxt == Advance(x_i_plus_1, y_i_plus_1)
     IN  IF debug /\ Fifth(x_i_plus_1) # s
         THEN \* assert_eq!(fifth, x_i + y_i) panics
              /\ pc' = "panic_sanity"
              /\ UNCHANGED genvars
         ELSE /\ res' = Append(res, MinRootIteration(x_i, y_i, x_i_plus_1, y_i_plus_1))
              /\ x_i' = nxt[1] /\ y_i' = nxt[2]
              /\ gi' = gi + 1
              /\ pc' = pc
  /\ UNCHANGED <<config, z0_primary, minroot_iterations, minroot_circuits,
                 step, z, cs, z_out, allsat, advvars>>

\* MinRootIteration::new, the return; main binds (z0_primary, minroot_iterations)
GenReturn ==
  /\ pc = "new" /\ gi = TotalIters
  /\ z0_primary' = Z0(x_0, y_0)
  /\ minroot_iterations' = res
  /\ pc' = "slice"
  /\ UNCHANGED <<config, genvars, minroot_circuits, step, z, cs, z_out,
                 allsat, advvars>>

\* main: minroot_circuits, num_steps circuits of num_iters_per_step records
SliceOf(i) ==
  [j \in 1..num_iters_per_step |->
     LET r == minroot_iterations[i * num_iters_per_step + j]
     IN  MinRootIteration(r.x_i, r.y_i, r.x_i_plus_1, r.y_i_plus_1)]

Slice ==
  /\ pc = "slice"
  /\ minroot_circuits' = [i \in 1..num_steps |-> SliceOf(i - 1)]
  /\ pc' = "snark"
  /\ UNCHANGED <<config, genvars, z0_primary, minroot_iterations, step, z,
                 cs, z_out, allsat, advvars>>

\* main: RecursiveSNARK::new(&pp, &minroot_circuits[0], .., &z0_primary, ..)
SnarkNew ==
  /\ pc = "snark"
  /\ z' = z0_primary
  /\ step' = 0
  /\ pc' = "prove"
  /\ UNCHANGED <<config, genvars, z0_primary, minroot_iterations,
                 minroot_circuits, cs, z_out, allsat, advvars>>

\* main: one pass of the prove_step loop.  The engine synthesizes the step's
\* circuit on the running public state and threads the values of z_out to
\* the next step; a failed synthesize makes res an Err and the assert panics.
ProveStep ==
  /\ pc = "prove" /\ step < num_steps
  /\ LET r == Synthesize(minroot_circuits[step + 1], NewCS(z))
     IN  /\ cs' = r.cs
         /\ z_out' = r.z_out
         /\ IF r.z_out.ok
            THEN /\ z' = [n \in 1..Len(r.z_out.vars) |-> r.cs.vals[r.z_out.vars[n]]]
                 /\ step' = step + 1
                 /\ allsat' = (allsat /\ Satisfied(r.cs))
                 /\ pc' = pc
            ELSE /\ pc' = "panic_prove"
                 /\ UNCHANGED <<z, step, allsat>>
  /\ UNCHANGED <<config, genvars, z0_primary, minroot_iterations,
                 minroot_circuits, advvars>>

\* main: recursive_snark.verify(..); assert!(res.is_ok()).  The engine
\* accepts exactly when every step's constraints were satisfied.
Verify ==
  /\ pc = "prove" /\ step = num_steps
  /\ pc' = IF allsat THEN "done" ELSE "panic_verify"
  /\ UNCHANGED <<config, genvars, z0_primary, minroot_iterations,
                 minroot_circuits, step, z, cs, z_out, allsat, advvars>>

Next == GenIter \/ GenReturn \/ Slice \/ SnarkNew \/ ProveStep \/ Verify

Spec == Init /\ [][Next]_vars

\* --------------------------------------------------------- the adversary
Fields == {"x_i", "y_i", "x_i_plus_1", "y_i_plus_1"}

\* One field of one record of one slice is replaced by a different value
\* before the slice is proved.
Tamper(s, j, f, v) ==
  /\ pc = "snark" /\ tampered = <<>>
  /\ s \in 1..Len(minroot_circuits)
  /\ j \in 1..Len(minroot_circuits[s])
  /\ v \in F /\ v # minroot_circuits[s][j][f]
  /\ minroot_circuits' = [minroot_circuits EXCEPT ![s][j][f] = v]
  /\ tampered' = <<s, j, f>>
  /\ UNCHANGED <<config, pc, genvars, z0_primary, minroot_iterations, step,
                 z, cs, z_out, allsat, forged>>

TamperStep ==
  \E s \in 1..MaxSteps, j \in 1..MaxIters, f \in Fields, v \in 0..(MaxP - 1) :
    Tamper(s, j, f, v)

NextTamper == Next \/ TamperStep

SpecTamper == InitMain /\ [][NextTamper]_vars

\* A prover replaces the value of one variable that synthesize allocated in
\* the constraint system of the step just synthesized.
Forge(n, v) ==
  /\ pc \in {"prove", "forged"} /\ step >= 1 /\ forged < MaxForge
  /\ n \in 4..Len(cs.vals)
  /\ v \in F /\ v # cs.vals[n]
  /\ cs' = [cs EXCEPT !.vals[n] = v]
  /\ forged' = forged + 1
  /\ pc' = "forged"
  /\ UNCHANGED <<config, genvars, z0_primary, minroot_iterations,
                 minroot_circuits, step, z, z_out, allsat, tampered>>

ForgeStep ==
  \E n \in 4..(3 + 5 * MaxIters), v \in 0..(MaxP - 1) : Forge(n, v)

NextForge == Next \/ ForgeStep

SpecForge == InitMain /\ [][NextForge]_vars

\* ------------------------------------------------------------ properties
\* Layout of the variables synthesize allocates for the iteration at
\* 0-based position j of the slice, in allocation order.
IdxVar(j) == 4 + 5 * j
XOutVar(j) == 5 + 5 * j
YOutVar(j) == 6 + 5 * j
SqVar(j) == 7 + 5 * j
QuadVar(j) == 8 + 5 * j

\* the running x and y variables at the start of iteration j
RunX(j) == IF j = 0 THEN 2 ELSE XOutVar(j - 1)
RunY(j) == IF j = 0 THEN 3 ELSE YOutVar(j - 1)

\* cs and z_out are those of a completed synthesize of slice number `step`
SynthDone == step >= 1 /\ pc \in {"prove", "done", "panic_verify", "forged"}

\* some synthesize has run (successfully or not)
SynthRan == z_out # NoResult

\* the exponent of MinRootIteration::new inverts the fifth power on the field
ExpIsFifthRoot == \A s \in F : Fifth(FifthRoot(s)) = s

\* C1: for every prime p with gcd(5, p-1) = 1, every record the generator
\* produces has x_out^5 = x_in + y_in and the sanity assertion never fires.
C1_QuinticRoot ==
  Gcd(5, p - 1) = 1 =>
    /\ pc # "panic_sanity"
    /\ \A n \in 1..Len(res) :
         Fifth(res[n].x_i_plus_1) = FAdd(res[n].x_i, res[n].y_i)

\* C2: honest completeness: in a field where the exponent is a fifth root,
\* with the trace sliced as main does and z_out threaded from step to step,
\* every constraint of every step is satisfied.
C2_HonestCompleteness ==
  (ExpIsFifthRoot /\ SynthDone /\ tampered = <<>> /\ forged = 0) => Satisfied(cs)

\* C3: in a field where the exponent is a fifth root, replacing one field of
\* one record of the first slice (whose z_in is the matching z0) by another
\* value leaves at least one constraint of that slice unsatisfied.
C3_TamperDetected ==
  (ExpIsFifthRoot /\ SynthDone /\ step = 1 /\ tampered # <<>> /\ tampered[1] = 1)
    => ~Satisfied(cs)

\* C4: every assignment that satisfies the constraints of a step has, for
\* every iteration j, x_out_j^5 = x_j + y_j and y_out_j = x_j + (j + 1).
C4_ConstraintSoundness ==
  (SynthDone /\ Satisfied(cs)) =>
    \A j \in 0..(num_iters_per_step - 1) :
      /\ Fifth(cs.vals[XOutVar(j)]) = FAdd(cs.vals[RunX(j)], cs.vals[RunY(j)])
      /\ cs.vals[YOutVar(j)] = FAdd(cs.vals[RunX(j)], from_u128(j + 1))

C6_AdditiveChaining ==
  /\ \A n \in 1..Len(res) :
       res[n].y_i_plus_1 = (res[n].x_i + (n % p)) % p
  /\ pc \notin {"new", "panic_sanity"} => minroot_iterations = res

C6_Witness ==
  /\ pc = "slice" /\ Len(minroot_iterations) >= 3
  /\ minroot_iterations[3].y_i_plus_1 = (minroot_iterations[3].x_i + 3) % p

\* C7: what MinRootIteration::new returns: z0 = [x_0, y_0] and a trace of
\* exactly N records, the first starting at the seeds and every later one
\* at the outputs of its predecessor.
C7_TraceShape ==
  pc \notin {"new", "panic_sanity"} =>
    /\ z0_primary = <<x_0, y_0>>
    /\ Len(minroot_iterations) = TotalIters
    /\ TotalIters > 0 =>
         /\ minroot_iterations[1].x_i = x_0
         /\ minroot_iterations[1].y_i = y_0
    /\ \A n \in 2..Len(minroot_iterations) :
         /\ minroot_iterations[n].x_i = minroot_iterations[n - 1].x_i_plus_1
         /\ minroot_iterations[n].y_i = minroot_iterations[n - 1].y_i_plus_1

C7_Witness ==
  /\ pc = "slice" /\ Len(minroot_iterations) >= 2
  /\ minroot_iterations[2].y_i # minroot_iterations[1].y_i

\* C8: for a non-empty slice synthesize returns Ok with exactly `arity`
\* variables: the x_out variable of the last iteration, then the running x
\* before the last iteration's update (z_in[0] for a slice of one), never
\* the last y_out; the engine threads their values to the next step.
C8_PublicOutput ==
  (SynthRan /\ num_iters_per_step >= 1) =>
    LET m == num_iters_per_step
        seq == minroot_circuits[step]
    IN  /\ SynthDone
        /\ z_out.ok /\ Len(z_out.vars) = arity
        /\ z_out.vars[1] = XOutVar(m - 1)
        /\ z_out.vars[2] = (IF m = 1 THEN 2 ELSE XOutVar(m - 2))
        /\ z_out.vars[2] # YOutVar(m - 1)
        /\ z[1] = seq[m].x_i_plus_1
        /\ z[2] = (IF m = 1 THEN cs.vals[2] ELSE seq[m - 1].x_i_plus_1)

C8_Witness ==
  /\ SynthDone /\ num_iters_per_step >= 2 /\ z_out.ok
  /\ z[2] # minroot_circuits[step][num_iters_per_step].y_i_plus_1

\* C9: the index value allocated for slice-local iteration j of step k
\* (0-based) is the global position k * m + j + 1.
C9_GlobalIndex ==
  (SynthDone /\ forged = 0) =>
    \A j \in 0..(num_iters_per_step - 1) :
      cs.vals[IdxVar(j)] = from_u128((step - 1) * num_iters_per_step + j + 1)

\* C10: when gcd(5, p-1) # 1 the run aborts before any work: no trace
\* record is produced and no prove_step is reached.
C10_FatalEarly ==
  Gcd(5, p - 1) # 1 =>
    /\ res = <<>>
    /\ pc \notin {"prove", "done", "panic_prove", "panic_verify", "forged"}

====
